---- MODULE Spec2Model ----
(***************************************************************************)
(* Face-recognition API (src/index.js): an express server with an          *)
(* in-memory vector store of labelled face embeddings, an enrol route      *)
(* (POST /add-face) and a resolve route (POST /detect-and-recognize).      *)
(*                                                                         *)
(* Numbers.  Embedding coordinates are kept in tenths, so the coordinate   *)
(* 3 stands for 0.3 and a Euclidean distance of 0.6 is a squared distance  *)
(* of 36.  Math.sqrt is strictly increasing on these values, so every      *)
(* comparison of two distances is made on their squares.                   *)
(***************************************************************************)
EXTENDS Integers, Sequences, FiniteSets, TLC

\* ------------------------------------------------------------------ bounds
\* Number of request slots (requests that may be in flight together).
MaxReq == 2
\* Largest store the resolver is driven with in SpecResolve.
MaxStore == 2
\* Number of request slots used in SpecLive (at most MaxReq).
MaxLive == 1

\* ------------------------------------------------------------------ data
Reqs == 1..MaxReq

\* req.query.name: "" stands for a missing or empty name (both are falsy).
NoName == ""
Names == {"alice", "bob", "unknown"}
\* The names the HTTP requests of Spec carry.
RequestNames == {"alice", "bob"}

\* Face descriptors, in tenths.  From <<0,0>> the distances are
\* 0, 0.3, 0.3, 0.6 and 0.7.
Embeddings == {<<0, 0>>, <<3, 0>>, <<0, 3>>, <<6, 0>>, <<7, 0>>}
NoEmbeddings == <<>>
\* The descriptors the face model produces for the requests of Spec
\* (0.7 apart).
Faces == {<<0, 0>>, <<7, 0>>}

\* req.body as express.raw leaves it: not a Buffer (no image/* content
\* type), an empty Buffer, or a Buffer holding bytes.
Bodies == {"notBuffer", "emptyBuffer", "bytes"}

\* MIME types as token sequences, so that startsWith and === differ:
\* "image/heic-sequence" starts with "image/heic" and is not equal to it.
NoType == <<>>
JPEG == <<"image", "jpeg">>
PNG == <<"image", "png">>
HEIC == <<"image", "heic">>
HEIF == <<"image", "heif">>
HEICSEQ == <<"image", "heic", "sequence">>
GIF == <<"image", "gif">>
\* What fileTypeFromBuffer may answer for a non-empty Buffer.
FileTypes == {NoType, JPEG, PNG, HEIC, HEIF, HEICSEQ, GIF}

\* The value `false` returned by validateInput.
False == <<"false">>

\* ------------------------------------------------------------------ state
VARIABLES
  server,       \* "loading" | "listening" | "exited"   (startServer)
  loadCalls,    \* how many times loadModels has been called
  vectorStore,  \* the in-memory store: sequence of [name, embeddings]
  req,          \* per request slot: the handler's locals and position
  probe         \* SpecResolve: the last two direct calls of queryVectorStore

vars == <<server, loadCalls, vectorStore, req, probe>>

\* ------------------------------------------------------------------ helpers
\* String.prototype.startsWith, on token sequences.
StartsWith(s, prefix) ==
  /\ Len(prefix) <= Len(s)
  /\ SubSeq(s, 1, Len(prefix)) = prefix

\* validateInput(buffer): `type` is what fileTypeFromBuffer answers when it
\* is asked (it is asked only for a non-empty Buffer).
validateInput(buffer, type) ==
  IF buffer = "notBuffer" \/ buffer = "emptyBuffer" THEN False
  ELSE IF type = NoType THEN False
  ELSE IF \/ StartsWith(type, JPEG)
          \/ StartsWith(type, PNG)
          \/ StartsWith(type, HEIC)
          \/ StartsWith(type, HEIF)
       THEN type
       ELSE False

\* The handlers' test for the HEIC conversion branch (strict equality).
NeedsConversion(imageType) == imageType = HEIC \/ imageType = HEIF

\* new Image(); img.src = buffer: node-canvas decodes JPEG and PNG data
\* (and may still fail on corrupt bytes); anything else fires onerror.
CanDecode(format) == format = JPEG \/ format = PNG

\* faceapi.euclideanDistance, squared: sum of (a[i] - b[i])^2.
RECURSIVE SumSq(_, _, _)
SumSq(a, b, i) ==
  IF i > Len(a) THEN 0
  ELSE (a[i] - b[i]) * (a[i] - b[i]) + SumSq(a, b, i + 1)

euclideanDistanceSq(a, b) == SumSq(a, b, 1)

\* The acceptance threshold passed to FaceMatcher, 0.6, in tenths.
distanceThreshold == 6

\* vectorStore.map(item => new LabeledFaceDescriptors(item.name,
\*   [new Float32Array(item.embeddings)])): one descriptor per entry, labels
\* not merged.  The stored numbers are float32 values already (they come
\* from Array.from(detection.descriptor)), so the typed array keeps them.
LabeledFaceDescriptors(item) ==
  [label |-> item.name, descriptors |-> <<item.embeddings>>]

labeledDescriptors(store) ==
  [i \in 1..Len(store) |-> LabeledFaceDescriptors(store[i])]

\* FaceMatcher.computeMeanDistance over the single descriptor of an entry.
computeMeanDistanceSq(query, descriptors) ==
  euclideanDistanceSq(descriptors[1], query)

\* The reduce callback of FaceMatcher.matchDescriptor:
\*   (best, curr) => best.distance < curr.distance ? best : curr
BetterKeepsFirst(best, curr) ==
  IF best.distance <= curr.distance THEN best ELSE curr

BetterFarthest(best, curr) ==
  IF best.distance > curr.distance THEN best ELSE curr

Better(best, curr) ==
  IF best.distance < curr.distance THEN best ELSE curr

\* Array.prototype.reduce without an initial value, left to right.
RECURSIVE ReduceBest(_, _, _)
ReduceBest(matches, i, best) ==
  IF i > Len(matches) THEN best
  ELSE ReduceBest(matches, i + 1, Better(best, matches[i]))

\* FaceMatcher.matchDescriptor: a FaceMatch per labelled descriptor, reduced
\* to the best one.  `index` is the position in the store (not a field of
\* FaceMatch; carried so that the chosen entry can be named).
matchDescriptor(lds, query) ==
  LET matches == [i \in 1..Len(lds) |->
                    [label |-> lds[i].label,
                     distance |-> computeMeanDistanceSq(query, lds[i].descriptors),
                     index |-> i]]
  IN ReduceBest(matches, 2, matches[1])

\* FaceMatcher.findBestMatch:
\*   bestMatch.distance < this.distanceThreshold
\*     ? bestMatch : new FaceMatch('unknown', bestMatch.distance)
AcceptInclusive(distanceSq) == distanceSq <= distanceThreshold * distanceThreshold

AcceptZeroThreshold(distanceSq) == distanceSq < 0

Accept(distanceSq) == distanceSq < distanceThreshold * distanceThreshold

findBestMatch(lds, query) ==
  LET bestMatch == matchDescriptor(lds, query)
  IN IF Accept(bestMatch.distance)
     THEN bestMatch
     ELSE [label |-> "unknown", distance |-> bestMatch.distance, index |-> 0]

\* new FaceMatcher(labeledDescriptors, 0.6).findBestMatch(query); the
\* constructor throws when it is given no descriptors.
FaceMatcher(lds, query) ==
  IF Len(lds) = 0
  THEN [threw |-> TRUE, label |-> "", index |-> 0, compared |-> 0]
  ELSE LET m == findBestMatch(lds, query)
       IN [threw |-> FALSE, label |-> m.label, index |-> m.index,
           compared |-> Len(lds)]

\* queryVectorStore(embeddings) against the store `store`.  `compared` counts
\* the distance computations made, `index` names the entry whose label is
\* returned (0 when none is).
queryVectorStoreNoGuard(store, embeddings) ==
  FaceMatcher(labeledDescriptors(store), embeddings)

queryVectorStore(store, embeddings) ==
  IF Len(store) = 0
  THEN [threw |-> FALSE, label |-> "unknown", index |-> 0, compared |-> 0]
  ELSE FaceMatcher(labeledDescriptors(store), embeddings)

\* What queryVectorStore leaves in vectorStore: map builds a new array and
\* the store itself is not written.
RECURSIVE Reverse(_)
Reverse(s) == IF s = <<>> THEN <<>> ELSE Append(Reverse(Tail(s)), Head(s))

StoreAfterQueryReversed(store) == Reverse(store)

StoreAfterQueryShifted(store) == IF store = <<>> THEN <<>> ELSE Tail(store)

StoreAfterQuery(store) == store

\* saveToVectorStore(name, embeddings): vectorStore.push({name, embeddings}).
saveTorn(store, name, embeddings) ==
  Append(store, [name |-> name, embeddings |-> NoEmbeddings])

saveOverwritingLast(store, name, embeddings) ==
  IF Len(store) = 0
  THEN <<[name |-> name, embeddings |-> embeddings]>>
  ELSE [store EXCEPT ![Len(store)] = [name |-> name, embeddings |-> embeddings]]

saveReplacingSameName(store, name, embeddings) ==
  IF \E i \in 1..Len(store) : store[i].name = name
  THEN [i \in 1..Len(store) |->
          IF store[i].name = name
          THEN [name |-> name, embeddings |-> embeddings]
          ELSE store[i]]
  ELSE Append(store, [name |-> name, embeddings |-> embeddings])

saveToVectorStore(store, name, embeddings) ==
  Append(store, [name |-> name, embeddings |-> embeddings])

\* ------------------------------------------------------------------ requests
\* Slots are taken in arrival order: slot r holds the r-th request.
\* A request slot before a request arrives.  name, buffer: the inputs;
\* type: what the sniffer answered; imageType, format (of processingBuffer),
\* embeddings, personName: the handler's locals; seen: the descriptors the
\* resolver compared against; status, error, details: the response;
\* sent: responses written; failed: the collaborator call that threw;
\* detection: what detectSingleFace gave ("null" or "found");
\* n...: calls made for this request.
IdleReq ==
  [kind |-> "none", pc |-> "idle", name |-> NoName, buffer |-> "notBuffer",
   type |-> NoType, imageType |-> False, format |-> NoType,
   embeddings |-> NoEmbeddings, personName |-> "", seen |-> <<>>,
   status |-> 0, error |-> "", details |-> "", sent |-> 0, failed |-> "",
   detection |-> "",
   nSniff |-> 0, nConvert |-> 0, nGetEmbeddings |-> 0, nSave |-> 0,
   nQuery |-> 0]

\* return res.status(code).json({error, details}) and the handler ends.
Respond(q, code, error, details) ==
  [q EXCEPT !.pc = "done", !.status = code, !.error = error,
            !.details = details, !.sent = @ + 1]

\* The catch around `await convertHeicToJpg(buffer)`: answer 500 and return.
OnConversionErrorFallThrough(q) ==
  [q EXCEPT !.failed = "convertHeicToJpg", !.pc = "getEmbeddings",
            !.format = q.imageType, !.nGetEmbeddings = @ + 1]

OnConversionErrorNoReturn(q) ==
  [q EXCEPT !.failed = "convertHeicToJpg", !.status = 500,
            !.error = "Image conversion error",
            !.details = "HEIC Conversion Failed", !.sent = @ + 1,
            !.pc = "getEmbeddings", !.format = q.imageType,
            !.nGetEmbeddings = @ + 1]

OnConversionError(q) ==
  Respond([q EXCEPT !.failed = "convertHeicToJpg"],
          500, "Image conversion error", "HEIC Conversion Failed")

\* img.onerror rejects getEmbeddings with "Failed to load image"; the
\* handler's outer catch answers 500.
OnImageLoadErrorAsNoFace(q) ==
  Respond([q EXCEPT !.failed = "getEmbeddings"],
          400, "Processing error", "No face detected in the provided image.")

OnImageLoadError(q) ==
  Respond([q EXCEPT !.failed = "getEmbeddings"],
          500, "Internal server error", "Failed to load image")

\* startServer: app.listen is reached only after `await loadModels()`.
AcceptingBeforeLoad(s) == s = "loading" \/ s = "listening"

Accepting(s) == s = "listening"

Init ==
  /\ server = "loading"
  /\ loadCalls = 1
  /\ vectorStore = <<>>
  /\ req = [r \in Reqs |-> IdleReq]
  /\ probe = <<>>

\* loadModels resolves: startServer goes on to app.listen.
LoadModelsResolves ==
  /\ server = "loading"
  /\ server' = "listening"
  /\ UNCHANGED <<loadCalls, vectorStore, req, probe>>

\* loadModels rejects: the catch block calls process.exit(1).
LoadModelsRejects ==
  /\ server = "loading"
  /\ server' = "exited"
  /\ UNCHANGED <<loadCalls, vectorStore, req, probe>>

\* The handler's test `!name` on req.query.name.
MissingNameNeverRejected(name) == FALSE

MissingName(name) == name = NoName

\* POST /add-face arrives; the handler runs up to `await validateInput`.
AddFace(r, name, buffer) ==
  /\ Accepting(server)
  /\ req[r].pc = "idle"
  /\ \A p \in Reqs : p < r => req[p].pc # "idle"
  /\ LET q == [req[r] EXCEPT !.kind = "add-face", !.name = name,
                             !.buffer = buffer]
     IN req' = [req EXCEPT ![r] =
          IF MissingName(name)
          THEN Respond(q, 400, "Validation error", "Missing 'name' query parameter")
          ELSE [q EXCEPT !.pc = "validateInput"]]
  /\ UNCHANGED <<server, loadCalls, vectorStore, probe>>

\* POST /detect-and-recognize arrives; runs up to `await validateInput`.
DetectAndRecognize(r, buffer) ==
  /\ Accepting(server)
  /\ req[r].pc = "idle"
  /\ \A p \in Reqs : p < r => req[p].pc # "idle"
  /\ req' = [req EXCEPT ![r] =
       [@ EXCEPT !.kind = "detect-and-recognize", !.buffer = buffer,
                 !.pc = "validateInput"]]
  /\ UNCHANGED <<server, loadCalls, vectorStore, probe>>

\* `await validateInput(buffer)` resumes (both handlers).
ValidateInputReturns(r, type) ==
  /\ req[r].pc = "validateInput"
  /\ IF req[r].buffer = "bytes" THEN type \in FileTypes ELSE type = NoType
  /\ LET imageType == validateInput(req[r].buffer, type)
         q == [req[r] EXCEPT !.type = type, !.imageType = imageType,
                 !.nSniff = IF req[r].buffer = "bytes" THEN @ + 1 ELSE @]
     IN req' = [req EXCEPT ![r] =
          IF imageType = False
          THEN Respond(q, 400, "Validation error",
                       "Request body contains no valid image (JPEG, PNG, or HEIC)")
          ELSE IF NeedsConversion(imageType)
          THEN [q EXCEPT !.pc = "convertHeicToJpg", !.nConvert = @ + 1]
          ELSE [q EXCEPT !.pc = "getEmbeddings", !.format = imageType,
                         !.nGetEmbeddings = @ + 1]]
  /\ UNCHANGED <<server, loadCalls, vectorStore, probe>>

\* `await convertHeicToJpg(buffer)` resumes with the JPEG bytes.
ConvertReturns(r) ==
  /\ req[r].pc = "convertHeicToJpg"
  /\ req' = [req EXCEPT ![r] =
       [@ EXCEPT !.pc = "getEmbeddings", !.format = JPEG,
                 !.nGetEmbeddings = @ + 1]]
  /\ UNCHANGED <<server, loadCalls, vectorStore, probe>>

\* heicConvert throws; convertHeicToJpg rethrows; the inner catch answers.
ConvertThrows(r) ==
  /\ req[r].pc = "convertHeicToJpg"
  /\ req' = [req EXCEPT ![r] = OnConversionError(@)]
  /\ UNCHANGED <<server, loadCalls, vectorStore, probe>>

\* The image fails to load: getEmbeddings rejects, the outer catch answers.
GetEmbeddingsRejects(r) ==
  /\ req[r].pc = "getEmbeddings"
  /\ req' = [req EXCEPT ![r] = OnImageLoadError(@)]
  /\ UNCHANGED <<server, loadCalls, vectorStore, probe>>

\* detectSingleFace finds no face: getEmbeddings returns null.
GetEmbeddingsNoFace(r) ==
  /\ req[r].pc = "getEmbeddings"
  /\ CanDecode(req[r].format)
  /\ req' = [req EXCEPT ![r] =
       Respond([@ EXCEPT !.detection = "null"], 400, "Processing error",
               "No face detected in the provided image.")]
  /\ UNCHANGED <<server, loadCalls, vectorStore, probe>>

\* /add-face: getEmbeddings returns a descriptor; the handler calls
\* saveToVectorStore, whose push runs before its promise is awaited.
AddFaceEmbeddings(r, e) ==
  /\ req[r].pc = "getEmbeddings"
  /\ req[r].kind = "add-face"
  /\ CanDecode(req[r].format)
  /\ vectorStore' = saveToVectorStore(vectorStore, req[r].name, e)
  /\ req' = [req EXCEPT ![r] =
       [@ EXCEPT !.embeddings = e, !.detection = "found",
                 !.pc = "saveToVectorStore",
                 !.nSave = @ + 1]]
  /\ UNCHANGED <<server, loadCalls, probe>>

\* `await saveToVectorStore(...)` resumes: 201.
SaveReturns(r) ==
  /\ req[r].pc = "saveToVectorStore"
  /\ req' = [req EXCEPT ![r] = Respond(@, 201, "", "saved successfully")]
  /\ UNCHANGED <<server, loadCalls, vectorStore, probe>>

\* /detect-and-recognize: getEmbeddings returns a descriptor; the handler
\* calls queryVectorStore, which runs to its return without awaiting.
RecognizeEmbeddings(r, e) ==
  /\ req[r].pc = "getEmbeddings"
  /\ req[r].kind = "detect-and-recognize"
  /\ CanDecode(req[r].format)
  /\ LET res == queryVectorStore(vectorStore, e)
         q == [req[r] EXCEPT !.embeddings = e, !.detection = "found",
                 !.nQuery = @ + 1,
                 !.seen = IF res.compared > 0
                          THEN labeledDescriptors(vectorStore) ELSE <<>>]
     IN req' = [req EXCEPT ![r] =
          IF res.threw
          THEN Respond([q EXCEPT !.failed = "queryVectorStore"],
                       500, "Internal server error", "FaceMatcher")
          ELSE [q EXCEPT !.pc = "queryVectorStore",
                         !.personName = res.label]]
  /\ vectorStore' = StoreAfterQuery(vectorStore)
  /\ UNCHANGED <<server, loadCalls, probe>>

\* `await queryVectorStore(...)` resumes: 200 with the name.
QueryReturns(r) ==
  /\ req[r].pc = "queryVectorStore"
  /\ req' = [req EXCEPT ![r] = Respond(@, 200, "", req[r].personName)]
  /\ UNCHANGED <<server, loadCalls, vectorStore, probe>>

Next ==
  \/ LoadModelsResolves
  \/ LoadModelsRejects
  \/ \E r \in Reqs, name \in RequestNames \cup {NoName}, buffer \in Bodies :
       AddFace(r, name, buffer)
  \/ \E r \in Reqs, buffer \in Bodies : DetectAndRecognize(r, buffer)
  \/ \E r \in Reqs, type \in FileTypes : ValidateInputReturns(r, type)
  \/ \E r \in Reqs : ConvertReturns(r)
  \/ \E r \in Reqs : ConvertThrows(r)
  \/ \E r \in Reqs : GetEmbeddingsRejects(r)
  \/ \E r \in Reqs : GetEmbeddingsNoFace(r)
  \/ \E r \in Reqs, e \in Faces : AddFaceEmbeddings(r, e)
  \/ \E r \in Reqs : SaveReturns(r)
  \/ \E r \in Reqs, e \in Faces : RecognizeEmbeddings(r, e)
  \/ \E r \in Reqs : QueryReturns(r)

Spec == Init /\ [][Next]_vars

\* The continuations of the request in slot r.  Each waits for a promise of
\* a collaborator call (sniffer, transcoder, image load, face model) or of
\* an async function that has already run; once the promise settles, the
\* event loop runs the continuation.
Step(r) ==
  \/ \E type \in FileTypes : ValidateInputReturns(r, type)
  \/ ConvertReturns(r)
  \/ ConvertThrows(r)
  \/ GetEmbeddingsRejects(r)
  \/ GetEmbeddingsNoFace(r)
  \/ \E e \in Faces : AddFaceEmbeddings(r, e)
  \/ SaveReturns(r)
  \/ \E e \in Faces : RecognizeEmbeddings(r, e)
  \/ QueryReturns(r)

\* The server taking requests in the slots LiveReqs only, with every
\* awaited promise settling eventually.
LiveReqs == 1..MaxLive

NextLive ==
  \/ LoadModelsResolves
  \/ LoadModelsRejects
  \/ \E r \in LiveReqs, name \in RequestNames \cup {NoName}, buffer \in Bodies :
       AddFace(r, name, buffer)
  \/ \E r \in LiveReqs, buffer \in Bodies : DetectAndRecognize(r, buffer)
  \/ \E r \in LiveReqs : Step(r)

SpecLive ==
  /\ Init
  /\ [][NextLive]_vars
  /\ \A r \in LiveReqs : WF_vars(Step(r))

\* ------------------------------------------------------------------ resolver driven directly
\* SpecResolve calls saveToVectorStore and queryVectorStore directly, one
\* call at a time, over all of Names and Embeddings.  probe holds the last
\* two queryVectorStore calls: the query, the store length at the call and
\* what the call returned.
InitResolve ==
  /\ server = "listening"
  /\ loadCalls = 1
  /\ vectorStore = <<>>
  /\ req = [r \in Reqs |-> IdleReq]
  /\ probe = <<>>

Enroll(name, e) ==
  /\ Len(vectorStore) < MaxStore
  /\ vectorStore' = saveToVectorStore(vectorStore, name, e)
  /\ UNCHANGED <<server, loadCalls, req, probe>>

Resolve(e) ==
  /\ LET call == [query |-> e, storeLen |-> Len(vectorStore),
                  result |-> queryVectorStore(vectorStore, e)]
     IN probe' = IF Len(probe) = 2 THEN <<probe[2], call>>
                 ELSE Append(probe, call)
  /\ vectorStore' = StoreAfterQuery(vectorStore)
  /\ UNCHANGED <<server, loadCalls, req>>

NextResolve ==
  \/ \E name \in Names, e \in Embeddings : Enroll(name, e)
  \/ \E e \in Embeddings : Resolve(e)

SpecResolve == InitResolve /\ [][NextResolve]_vars

\* ------------------------------------------------------------------ properties of the resolver
\* The recorded calls, the store each call ran against (the store only
\* grows in SpecResolve, so it is a prefix of the present one), and the
\* squared distances recomputed entry by entry.
Calls == {probe[k] : k \in 1..Len(probe)}
StoreAt(p) == SubSeq(vectorStore, 1, p.storeLen)
DistSq(st, i, q) == euclideanDistanceSq(st[i].embeddings, q)
MinDistSq(st, q) ==
  CHOOSE d \in {DistSq(st, i, q) : i \in 1..Len(st)} :
    \A i \in 1..Len(st) : d <= DistSq(st, i, q)
Nearest(st, q) == {i \in 1..Len(st) : DistSq(st, i, q) = MinDistSq(st, q)}
ThresholdSq == distanceThreshold * distanceThreshold

\* C1 (nearest wins): on a non-empty store, whenever queryVectorStore
\* returns the label of an entry, that entry is at the minimum distance
\* from the query over all stored entries; no strictly farther entry's
\* label is returned, and when no entry is chosen the answer is 'unknown'.
C1_NearestWins ==
  \A p \in Calls :
    LET st == StoreAt(p)
        res == p.result
    IN Len(st) > 0 =>
         /\ ~res.threw
         /\ res.index \in 0..Len(st)
         /\ res.index > 0 =>
              /\ res.label = st[res.index].name
              /\ res.index \in Nearest(st, p.query)
         /\ res.index = 0 => res.label = "unknown"
         /\ res.label # "unknown" =>
              \E i \in Nearest(st, p.query) : st[i].name = res.label

\* Witness of C1: entries at 0.3 and 0.7 from the query with different
\* labels, and the 0.3 entry's label returned.
C1_Witness ==
  \E p \in Calls :
    LET st == StoreAt(p)
    IN /\ Len(st) = 2
       /\ \E i, j \in 1..2 :
            /\ DistSq(st, i, p.query) = 9
            /\ DistSq(st, j, p.query) = 49
            /\ st[i].name # st[j].name
            /\ st[i].name # "unknown"
            /\ p.result.index = i
            /\ p.result.label = st[i].name

\* C2 as claimed (threshold inclusive): minimum distance exactly 0.6 gives
\* the nearest entry's label, strictly greater gives 'unknown'.
C2_AsClaimed ==
  \A p \in Calls :
    LET st == StoreAt(p)
        res == p.result
    IN Len(st) > 0 =>
         /\ MinDistSq(st, p.query) = ThresholdSq =>
              /\ res.index \in Nearest(st, p.query)
              /\ res.label = st[res.index].name
         /\ MinDistSq(st, p.query) > ThresholdSq =>
              /\ res.index = 0
              /\ res.label = "unknown"

\* C2 (amended, threshold exclusive): when the minimum distance is strictly
\* below 0.6 queryVectorStore returns the label of an entry at that minimum
\* distance; when it is exactly 0.6 or greater it returns 'unknown'.
C2_ThresholdExclusive ==
  \A p \in Calls :
    LET st == StoreAt(p)
        res == p.result
    IN Len(st) > 0 =>
         /\ ~res.threw
         /\ MinDistSq(st, p.query) < ThresholdSq =>
              /\ res.index \in Nearest(st, p.query)
              /\ res.label = st[res.index].name
         /\ MinDistSq(st, p.query) >= ThresholdSq =>
              /\ res.index = 0
              /\ res.label = "unknown"

\* Witness of C2: a call whose minimum distance is exactly 0.6, over a store
\* with no entry named 'unknown', answered 'unknown'.
C2_Witness ==
  \E p \in Calls :
    LET st == StoreAt(p)
    IN /\ Len(st) > 0
       /\ MinDistSq(st, p.query) = ThresholdSq
       /\ \A i \in 1..Len(st) : st[i].name # "unknown"
       /\ p.result.label = "unknown"
       /\ p.result.index = 0

\* Ties: two or more entries with different labels at the minimum distance,
\* which is within the threshold.
Tie(st, q) ==
  /\ Len(st) > 0
  /\ MinDistSq(st, q) < ThresholdSq
  /\ \E i, j \in Nearest(st, q) : st[i].name # st[j].name
First(S) == CHOOSE i \in S : \A j \in S : i <= j
Last(S) == CHOOSE i \in S : \A j \in S : i >= j

\* C3 as claimed (first enrolled wins a tie).
C3_AsClaimed ==
  \A p \in Calls :
    LET st == StoreAt(p)
    IN Tie(st, p.query) =>
         /\ p.result.index = First(Nearest(st, p.query))
         /\ p.result.label = st[First(Nearest(st, p.query))].name

\* C3 (amended, last enrolled wins a tie): when two or more entries with
\* different labels share the minimum distance and it is below the
\* threshold, queryVectorStore returns the label of the one enrolled last,
\* the highest index among them.
C3_TieLastEnrolled ==
  \A p \in Calls :
    LET st == StoreAt(p)
    IN Tie(st, p.query) =>
         /\ p.result.index = Last(Nearest(st, p.query))
         /\ p.result.label = st[Last(Nearest(st, p.query))].name

\* Witness of C3: a tie between two entries with different labels, the
\* second one's label returned.
C3_Witness ==
  \E p \in Calls :
    LET st == StoreAt(p)
    IN /\ Len(st) = 2
       /\ Tie(st, p.query)
       /\ Nearest(st, p.query) = {1, 2}
       /\ p.result.index = 2
       /\ p.result.label = st[2].name
       /\ p.result.label # st[1].name

\* C5 (empty store): queryVectorStore on an empty store returns 'unknown'
\* as a normal result, does not throw, and computes no distance.
C5_EmptyStoreUnknown ==
  \A p \in Calls :
    p.storeLen = 0 =>
      /\ ~p.result.threw
      /\ p.result.label = "unknown"
      /\ p.result.index = 0
      /\ p.result.compared = 0

\* Witness of C5: a call made on the empty store has returned 'unknown'.
C5_Witness ==
  \E p \in Calls :
    /\ p.storeLen = 0
    /\ p.result.label = "unknown"
    /\ ~p.result.threw

\* C9 (idempotent read): two consecutive queryVectorStore calls with the
\* same embedding and no enrolment between them return the same result.
C9_IdempotentRead ==
  (/\ Len(probe) = 2
   /\ probe[1].query = probe[2].query
   /\ probe[1].storeLen = probe[2].storeLen)
  => /\ probe[1].result.threw = probe[2].result.threw
     /\ probe[1].result.label = probe[2].result.label

\* Witness of C9: the same query made twice against an unchanged store
\* that holds a tie between two labels, and answered with a label.
C9_Witness ==
  /\ Len(probe) = 2
  /\ probe[1].query = probe[2].query
  /\ probe[1].storeLen = probe[2].storeLen
  /\ probe[1].storeLen = Len(vectorStore)
  /\ Tie(vectorStore, probe[2].query)
  /\ probe[2].result.index > 0
  /\ probe[1].result.label = probe[2].result.label

\* ------------------------------------------------------------------ properties of the server
Entry(r) == [name |-> req[r].name, embeddings |-> req[r].embeddings]
Pushed == {r \in Reqs : req[r].kind = "add-face" /\ req[r].nSave > 0}

\* C4 (lossless enrolment): under every interleaving of /add-face requests
\* the store holds exactly one entry per request whose saveToVectorStore
\* ran, each with that request's own name and embeddings, none lost or
\* overwritten; every request answered 201 is among them.
C4_EnrollLossless ==
  /\ Len(vectorStore) = Cardinality(Pushed)
  /\ \E f \in [Pushed -> 1..Len(vectorStore)] :
       /\ \A a, b \in Pushed : a # b => f[a] # f[b]
       /\ \A a \in Pushed : vectorStore[f[a]] = Entry(a)
  /\ \A r \in Reqs : req[r].nSave <= 1
  /\ \A r \in Reqs : req[r].status = 201 => r \in Pushed

\* Witness of C4: two /add-face requests in flight together, both past
\* their push, the later arrival's entry stored first, the entries
\* different.
C4_Witness ==
  /\ MaxReq >= 2
  /\ req[1].pc = "saveToVectorStore"
  /\ req[2].pc = "saveToVectorStore"
  /\ Len(vectorStore) = 2
  /\ vectorStore[1] = Entry(2)
  /\ vectorStore[2] = Entry(1)
  /\ req[1].name # req[2].name
  /\ req[1].embeddings # req[2].embeddings

\* C6 (malformed HEIC aborts): in both routes, when the sniffer says HEIC
\* or HEIF and the transcoder fails, the request ends with the conversion
\* failure response, the transcoder was called exactly once, getEmbeddings
\* was never called, and the store was neither written nor queried.
C6_MalformedHeicAborts ==
  \A r \in Reqs :
    /\ req[r].failed = "convertHeicToJpg" =>
         /\ req[r].type \in {HEIC, HEIF}
         /\ req[r].pc = "done"
         /\ req[r].sent = 1
         /\ req[r].error = "Image conversion error"
         /\ req[r].nConvert = 1
         /\ req[r].nGetEmbeddings = 0
         /\ req[r].nSave = 0
         /\ req[r].nQuery = 0
    /\ req[r].nConvert <= 1

\* Witness of C6: a request of each route ended by a transcoder failure.
C6_Witness ==
  /\ MaxReq >= 2
  /\ \E r, s \in Reqs :
       /\ req[r].kind = "add-face"
       /\ req[s].kind = "detect-and-recognize"
       /\ req[r].failed = "convertHeicToJpg"
       /\ req[s].failed = "convertHeicToJpg"
       /\ req[r].pc = "done"
       /\ req[s].pc = "done"

\* Payloads the claim calls invalid: no Buffer, an empty one, no recognised
\* signature, or a recognised type other than the four accepted ones.
InvalidPayload(r) ==
  \/ req[r].buffer \in {"notBuffer", "emptyBuffer"}
  \/ req[r].type \notin {JPEG, PNG, HEIC, HEIF}

\* C7 as claimed (invalid payloads are rejected by validation): every
\* request with an invalid payload ends with a validation failure, never an
\* internal failure, and reaches neither the transcoder, the extractor, the
\* store write nor the store query.
C7_InvalidPayloadRejected ==
  \A r \in Reqs :
    (/\ req[r].pc \notin {"idle", "validateInput"}
     /\ InvalidPayload(r))
    => /\ req[r].pc = "done"
       /\ req[r].status = 400
       /\ req[r].error = "Validation error"
       /\ req[r].nConvert = 0
       /\ req[r].nGetEmbeddings = 0
       /\ req[r].nSave = 0
       /\ req[r].nQuery = 0

\* C8 (snapshot atomicity): what a resolve compared against is the
\* labelled form of a prefix of the store, whole entries only, fixed at
\* the moment of its read; its answer is the one that prefix gives; entries
\* pushed later change neither.
C8_SnapshotAtomic ==
  \A r \in Reqs :
    req[r].nQuery > 0 =>
      LET n == Len(req[r].seen)
      IN /\ n <= Len(vectorStore)
         /\ req[r].seen = labeledDescriptors(SubSeq(vectorStore, 1, n))
         /\ \A i \in 1..n :
              /\ req[r].seen[i].label \in RequestNames
              /\ Len(req[r].seen[i].descriptors) = 1
              /\ req[r].seen[i].descriptors[1] \in Faces
         /\ req[r].failed = "" =>
              req[r].personName =
                queryVectorStore(SubSeq(vectorStore, 1, n), req[r].embeddings).label

\* Witness of C8: a resolve that read the store holding one whole entry
\* and was answered with that entry's name.
C8_Witness ==
  \E r, a \in Reqs :
    /\ req[r].kind = "detect-and-recognize"
    /\ req[r].nQuery = 1
    /\ a \in Pushed
    /\ req[r].seen = <<LabeledFaceDescriptors(Entry(a))>>
    /\ req[r].personName = req[a].name

\* C10 (startup ordering): no request is taken in before loadModels has
\* completed; if it fails the process exits with no request ever taken in
\* and the store empty; loadModels is called once, not per request.
C10_StartupOrdering ==
  /\ loadCalls = 1
  /\ (\E r \in Reqs : req[r].pc # "idle") => server = "listening"
  /\ server \in {"loading", "exited"} =>
       /\ \A r \in Reqs : req[r] = IdleReq
       /\ vectorStore = <<>>

\* Witness of C10: the server listens and has answered an enrolment, with
\* loadModels called once.
C10_Witness ==
  /\ server = "listening"
  /\ loadCalls = 1
  /\ \E r \in Reqs : req[r].status = 201

\* ------------------------------------------------------------------ response classes
\* Failures the request's own input causes, and the one that is not: a
\* corrupt HEIC payload makes heicConvert throw, undecodable bytes make the
\* image load fail; a throw out of the matcher is a collaborator error.
UserCaused(r) ==
  /\ req[r].pc = "done"
  /\ req[r].status >= 400
  /\ req[r].failed \in {"", "convertHeicToJpg", "getEmbeddings"}

\* C11 as claimed (response classes kept apart): every failure caused by
\* the request's own input (missing label, invalid or unrecognised body,
\* HEIC conversion failure, undecodable bytes, no face) is answered in the
\* 4xx class, and only an unexpected collaborator error in the 5xx class.
C11_FailureClassesDistinct ==
  \A r \in Reqs :
    /\ UserCaused(r) => req[r].status \in 400..499
    /\ (req[r].pc = "done" /\ req[r].failed = "queryVectorStore") =>
         req[r].status \in 500..599

\* ------------------------------------------------------------------ frame of a failed enrolment
\* An /add-face request that has ended in a failure.
EnrollFailed(r) ==
  /\ req[r].kind = "add-face"
  /\ req[r].pc = "done"
  /\ req[r].status >= 400

\* The step that changes the store: the push of one /add-face request,
\* made when its descriptor arrives, appending that request's entry.
IsPushOf(r) ==
  /\ req[r].kind = "add-face"
  /\ req[r].pc = "getEmbeddings"
  /\ req'[r].pc = "saveToVectorStore"
  /\ req'[r].nSave = 1
  /\ vectorStore' = Append(vectorStore,
       [name |-> req'[r].name, embeddings |-> req'[r].embeddings])

\* C12 (failed enrolment leaves the store alone): the store changes only
\* by the push of an /add-face request that then ends 201, one entry per
\* such request; a request ending in a failure made no call after the
\* failing stage and no push; a missing name is rejected before the
\* sniffer, the transcoder or the extractor is called.
C12_FailedEnrollNoEffect ==
  /\ [](\A r \in Reqs :
          /\ EnrollFailed(r) => req[r].nSave = 0
          /\ (req[r].kind = "add-face" /\ req[r].name = NoName) =>
               /\ EnrollFailed(r)
               /\ req[r].nSniff = 0
               /\ req[r].nConvert = 0
               /\ req[r].nGetEmbeddings = 0
          /\ (EnrollFailed(r) /\ req[r].error = "Validation error") =>
               /\ req[r].nConvert = 0
               /\ req[r].nGetEmbeddings = 0
          /\ (EnrollFailed(r) /\ req[r].failed = "convertHeicToJpg") =>
               req[r].nGetEmbeddings = 0
          /\ (req[r].kind = "add-face" /\ req[r].nSave > 0) =>
               /\ req[r].nSave = 1
               /\ req[r].pc \in {"saveToVectorStore", "done"}
               /\ req[r].pc = "done" => req[r].status = 201)
  /\ [][vectorStore' # vectorStore => \E r \in Reqs : IsPushOf(r)]_vars
  /\ [][\A r \in Reqs :
          (req'[r] # req[r] /\ EnrollFailed(r)')
            => vectorStore' = vectorStore]_vars

\* Witness of C12: an enrolment has succeeded and another has failed after
\* it at the extractor, the store holding the first one's entry only.
C12_Witness ==
  \E a, b \in Reqs :
    /\ req[a].status = 201
    /\ EnrollFailed(b)
    /\ req[b].error = "Processing error"
    /\ req[b].name # NoName
    /\ vectorStore = <<Entry(a)>>

\* ------------------------------------------------------------------ the store over time
IsPrefix(s, t) == Len(s) <= Len(t) /\ SubSeq(t, 1, Len(s)) = s

\* C13 (append-only store): in every step the store keeps every entry it
\* had, at the same position with the same name and embeddings, and never
\* shrinks; when it changes it gains exactly one entry at its end, also
\* when that entry's name is already present.
C13_AppendOnly ==
  [][/\ IsPrefix(vectorStore, vectorStore')
     /\ vectorStore' # vectorStore => Len(vectorStore') = Len(vectorStore) + 1
     /\ \A r \in Reqs :
          req'[r].nSave > req[r].nSave =>
            /\ Len(vectorStore') = Len(vectorStore) + 1
            /\ vectorStore'[Len(vectorStore')] =
                 [name |-> req'[r].name, embeddings |-> req'[r].embeddings]]_vars

\* Witness of C13: the same name enrolled twice with different embeddings,
\* both entries in the store in push order.
C13_Witness ==
  /\ Len(vectorStore) = 2
  /\ vectorStore[1].name = vectorStore[2].name
  /\ vectorStore[1].embeddings # vectorStore[2].embeddings
  /\ \A r \in Reqs : req[r].status = 201

\* ------------------------------------------------------------------ decode failure and no face
\* The response as the caller sees it.
Response(r) == <<req[r].status, req[r].error, req[r].details>>
DecodeFailed(r) == req[r].failed = "getEmbeddings"
NoFaceFound(r) == req[r].detection = "null"

\* C14 (decode failure is not "no face"): a request whose image bytes fail
\* to load ends with a response different from the one given when a
\* decoded image holds no face; and neither request writes or queries the
\* store.
C14_DecodeFailedDistinct ==
  /\ \A r \in Reqs :
       (DecodeFailed(r) \/ NoFaceFound(r)) =>
         /\ req[r].pc = "done"
         /\ req[r].sent = 1
         /\ req[r].status >= 400
         /\ req[r].nSave = 0
         /\ req[r].nQuery = 0
  /\ \A r \in Reqs :
       DecodeFailed(r) =>
         /\ req[r].error # "Processing error"
         /\ req[r].details # "No face detected in the provided image."
  /\ \A r, t \in Reqs :
       (DecodeFailed(r) /\ NoFaceFound(t)) =>
         /\ req[r].status # req[t].status
         /\ req[r].error # req[t].error
         /\ req[r].details # req[t].details

\* Witness of C14: the same route and image type, once failing to decode
\* and once decoded with no face, answered differently.
C14_Witness ==
  \E r, t \in Reqs :
    /\ DecodeFailed(r)
    /\ NoFaceFound(t)
    /\ req[r].kind = req[t].kind
    /\ req[r].type = JPEG
    /\ req[t].type = JPEG
    /\ Response(r) # Response(t)

\* ------------------------------------------------------------------ resolve is read-only
\* A step taken by the /detect-and-recognize request in slot r.
ResolveStep(r) ==
  /\ req'[r].kind = "detect-and-recognize"
  /\ req'[r] # req[r]

\* C15 (resolve is read-only): no step of a /detect-and-recognize request,
\* from its arrival to its response, whatever the outcome, changes the
\* store: size, order, names and embeddings stay as they were.
C15_ResolveReadOnly ==
  [][\A r \in Reqs : ResolveStep(r) => vectorStore' = vectorStore]_vars

\* Witness of C15: a resolve has run its query against a non-empty store
\* and been answered 200, and the store still holds the enrolled entry.
C15_Witness ==
  \E r, a \in Reqs :
    /\ req[r].kind = "detect-and-recognize"
    /\ req[r].status = 200
    /\ req[r].nQuery = 1
    /\ Len(req[r].seen) = 1
    /\ a \in Pushed
    /\ vectorStore = <<Entry(a)>>

\* ------------------------------------------------------------------ the literal 'unknown'
\* Entries of st within the acceptance threshold of q (the threshold as the
\* matcher applies it, see C2).
Within(st, q) == {i \in 1..Len(st) : DistSq(st, i, q) < ThresholdSq}

\* C16 as claimed ('unknown' exactly when nothing matched): an answer of
\* 'unknown' means the store was empty or held no entry within the
\* threshold of the query, and any other answer is the name of an entry of
\* the store, for every name /add-face accepts.
C16_UnknownIffNoMatch ==
  \A p \in Calls :
    LET st == StoreAt(p)
    IN ~p.result.threw =>
         /\ p.result.label = "unknown" => Within(st, p.query) = {}
         /\ p.result.label # "unknown" =>
              \E i \in 1..Len(st) : st[i].name = p.result.label

\* ------------------------------------------------------------------ enrolments are visible
\* The step in which the resolve in slot t runs its store query.
QueryStarts(t) == req'[t].nQuery > req[t].nQuery

\* Names of the entries of the store at distance 0 from e.
NamesAt(store, e) ==
  {store[i].name : i \in {j \in 1..Len(store) : store[j].embeddings = e}}

\* C17 (an answered enrolment is visible): when a resolve runs its store
\* query after an /add-face request for (L, E) was answered 201, and its
\* query embedding is E, the query does not fail and returns the name of a
\* stored entry at distance 0 from E, L when only L is stored with E, and
\* never 'unknown'; that name is what the 200 response carries.
C17_EnrollVisible ==
  /\ [][\A t, a \in Reqs :
          (/\ QueryStarts(t)
           /\ req[a].kind = "add-face"
           /\ req[a].status = 201
           /\ req[a].embeddings = req'[t].embeddings)
          => /\ req'[t].failed = ""
             /\ req'[t].pc = "queryVectorStore"
             /\ req[a].name \in NamesAt(vectorStore, req[a].embeddings)
             /\ req'[t].personName \in NamesAt(vectorStore, req[a].embeddings)
             /\ req'[t].personName # "unknown"
             /\ NamesAt(vectorStore, req[a].embeddings) = {req[a].name} =>
                  req'[t].personName = req[a].name]_vars
  /\ [](\A t \in Reqs :
          req[t].status = 200 =>
            /\ req[t].details = req[t].personName
            /\ req[t].pc = "done")

\* Witness of C17: an enrolment answered 201, and a resolve with the same
\* embedding that saw its entry and was answered 200 with its name.
C17_Witness ==
  \E t, a \in Reqs :
    /\ req[a].kind = "add-face"
    /\ req[a].status = 201
    /\ req[t].kind = "detect-and-recognize"
    /\ req[t].embeddings = req[a].embeddings
    /\ req[t].seen = <<LabeledFaceDescriptors(Entry(a))>>
    /\ req[t].status = 200
    /\ req[t].details = req[a].name

\* ------------------------------------------------------------------ one response per request
InFlight(r) == req[r].pc \notin {"idle", "done"}

\* C18 (exactly one terminal outcome): given that every awaited
\* collaborator call settles, every request taken in is eventually
\* answered; a response is written exactly when the handler ends, never
\* twice, and an answered request takes no further step.
C18_ExactlyOneResponse ==
  /\ [](\A r \in Reqs :
          /\ req[r].sent <= 1
          /\ req[r].sent = 1 <=> req[r].pc = "done"
          /\ req[r].pc = "done" => req[r].status \in {200, 201, 400, 500})
  /\ [][\A r \in Reqs : req[r].pc = "done" => req'[r] = req[r]]_vars
  /\ \A r \in Reqs : InFlight(r) ~> (req[r].pc = "done" /\ req[r].sent = 1)

\* Witness of C18: a request that went through the transcoder and was
\* ended by a collaborator exception (the image load), answered once.
C18_Witness ==
  \E r \in Reqs :
    /\ req[r].nConvert = 1
    /\ req[r].failed = "getEmbeddings"
    /\ req[r].pc = "done"
    /\ req[r].sent = 1
    /\ req[r].status = 500

====
